---- MODULE Spec2Model ----
(***************************************************************************)
(* Model of src/auto_booking.js: the booking script's async main function  *)
(* (browser launch, the fillAndSubmitForm helper, the retry loop and the   *)
(* final browser.close()), one action per awaited call.                    *)
(*                                                                         *)
(* Strings that the script trims, lower-cases and compares are sequences   *)
(* of one-character strings; the page URL and error names are opaque.      *)
(***************************************************************************)
EXTENDS Integers, Sequences, FiniteSets, TLC

\* ---------------------------------------------------------------- bounds
\* Iterations of the retry loop that are followed exactly.
MaxAttempt == 4
\* Largest value of the documented --max-retries option that is tried.
MaxCap == 2
\* Longest configured target / served center text in the retry-loop model.
MaxNameLen == 1
\* Longest string compared in the specification of the comparison alone.
MaxLen == 3

\* ---------------------------------------------------------------- strings
Alphabet == {"a", "A", "b", " "}

Str(n) == UNION {[1..k -> Alphabet] : k \in 0..n}

EmptyStr == << >>

IsSpace(c) == c = " "

\* String.prototype.trim, as the engine computes it: drop the whitespace run
\* at the start, then the whitespace run at the end.
RECURSIVE TrimStart(_)
TrimStart(s) ==
    IF s = << >> THEN << >>
    ELSE IF IsSpace(Head(s)) THEN TrimStart(Tail(s)) ELSE s

RECURSIVE TrimEnd(_)
TrimEnd(s) ==
    IF s = << >> THEN << >>
    ELSE IF IsSpace(s[Len(s)]) THEN TrimEnd(SubSeq(s, 1, Len(s) - 1)) ELSE s

trim(s) == TrimEnd(TrimStart(s))

LowerChar(c) == CASE c = "A" -> "a" [] c = "B" -> "b" [] OTHER -> c

toLowerCase(s) == [i \in 1..Len(s) |-> LowerChar(s[i])]

\* Line 54 with the target's trim() left out.
matchesUntrimmedTarget(assigned, tgt) ==
    toLowerCase(trim(assigned)) = toLowerCase(tgt)

\* Line 54: assignedCenter.trim().toLowerCase() === target.trim().toLowerCase()
matches(assigned, tgt) ==
    toLowerCase(trim(assigned)) = toLowerCase(trim(tgt))

\* ---------------------------------------------------------------- form
\* The fields fillAndSubmitForm enters, in the order of lines 23-31.
FormSteps ==
    << "passport", "first_name", "last_name", "dob",
       "country", "city", "medical_center" >>

PersonalFields == {"passport", "first_name", "last_name", "dob"}

AppointmentFields == {"country", "city", "medical_center"}

bookingUrl == "https://wafid.com/book-appointment/"

\* URLs the server may navigate the page to after the form is submitted.
ResponseUrls == {"https://wafid.com/confirm/", "https://wafid.com/pay/"}

\* ---------------------------------------------------------------- state
VARIABLES
    pc,             \* position in the async main function
    error,          \* the error that rejected the main function, or "none"
    target,         \* targetMedicalCenterName (line 11), set by the operator
    maxRetries,     \* the documented --max-retries option; the script never reads it
    browser,        \* "none" | "open" | "closed"
    launched,       \* number of browsers launched so far
    url,            \* page.url()
    respOf,         \* attempt whose server response the page shows, 0 if none
    centerEl,       \* text of the .assigned-center-selector element: {} or {text}
    filled,         \* form fields entered in the current document
    step,           \* index in FormSteps of the next field to enter
    storage,        \* attempts whose cookies/cache the browser context holds
    matched,        \* line 38
    attempt,        \* line 39
    assignedCenter, \* line 47
    paymentUrl,     \* line 56, "" while none was captured
    started,        \* attempt numbers announced (line 43)
    results,        \* one record per outcome line (lines 57 and 60)
    sessionOf,      \* browser used by each attempt (the page of line 20)
    inFlight,       \* form submissions sent and not yet answered
    delays,         \* waits of line 61 that have elapsed
    stopAt          \* attempt during which the operator asked to stop, 0 if not

vars ==
    << pc, error, target, maxRetries, browser, launched, url, respOf, centerEl,
       filled, step, storage, matched, attempt, assignedCenter, paymentUrl,
       started, results, sessionOf, inFlight, delays, stopAt >>

\* What the operator sets, the loop's own variables, the page and its
\* browser context, and the browser.
config == << target, maxRetries, stopAt >>
loopVars ==
    << matched, attempt, assignedCenter, paymentUrl, started, results, delays >>
pageVars == << url, respOf, centerEl, filled, step, storage, inFlight >>
sessVars == << browser, launched, sessionOf >>

\* The run's status as a caller sees it: the main function returned, was
\* rejected by an uncaught error, or is still running.
status ==
    CASE pc = "done" -> "Completed"
      [] pc = "rejected" -> "Failed"
      [] OTHER -> "Running"

Init ==
    /\ pc = "launch"
    /\ error = "none"
    /\ target \in Str(MaxNameLen)
    /\ maxRetries \in 1..MaxCap
    /\ browser = "none"
    /\ launched = 0
    /\ url = "about:blank"
    /\ respOf = 0
    /\ centerEl = {}
    /\ filled = {}
    /\ step = 1
    /\ storage = {}
    /\ matched = FALSE
    /\ attempt = 0
    /\ assignedCenter = EmptyStr
    /\ paymentUrl = ""
    /\ started = << >>
    /\ results = << >>
    /\ sessionOf = << >>
    /\ inFlight = 0
    /\ delays = 0
    /\ stopAt = 0

\* An await whose promise rejects: nothing in the script catches it, so the
\* main function is rejected where it stands.
Throw(kind) ==
    /\ pc' = "rejected"
    /\ error' = kind

\* Line 16: chromium.launch
Launch ==
    /\ pc = "launch"
    /\ \/ /\ pc' = "newPage"
          /\ browser' = "open"
          /\ launched' = launched + 1
          /\ UNCHANGED error
       \/ /\ Throw("LaunchError")
          /\ UNCHANGED << browser, launched >>
    /\ UNCHANGED << config, loopVars, pageVars, sessionOf >>

\* Line 17: browser.newPage
NewPage ==
    /\ pc = "newPage"
    /\ \/ /\ pc' = "head"
          /\ UNCHANGED error
       \/ Throw("LaunchError")
    /\ UNCHANGED << config, loopVars, pageVars, sessVars >>

\* Line 41 written as a loop that gives up after its second iteration.
LoopCondGivingUp == ~matched /\ attempt < 2

\* Line 41: while (!matched)
LoopCond == ~matched

\* Line 42 with the counter bumped twice.
AttemptBumpedTwice == attempt + 2

\* Line 42: attempt++
NextAttemptNumber == attempt + 1

\* Lines 41-44: the loop test holds, the counter is bumped, the attempt is
\* announced and fillAndSubmitForm is entered on the one page of line 17.
StartAttempt ==
    /\ pc = "head"
    /\ LoopCond
    /\ attempt < MaxAttempt
    /\ attempt' = NextAttemptNumber
    /\ started' = Append(started, attempt')
    /\ sessionOf' = Append(sessionOf, launched)
    /\ pc' = "goto"
    /\ UNCHANGED << error, config, browser, launched, pageVars,
                    matched, assignedCenter, paymentUrl, results, delays >>

\* Line 20: page.goto(bookingUrl). A new document replaces the old one; the
\* browser context, and what earlier visits stored in it, stays.
Goto ==
    /\ pc = "goto"
    /\ \/ /\ pc' = "fill"
          /\ url' = bookingUrl
          /\ respOf' = 0
          /\ centerEl' = {}
          /\ filled' = {}
          /\ step' = 1
          /\ storage' = storage \cup {attempt}
          /\ UNCHANGED << error, inFlight >>
       \/ /\ Throw("NavigationError")
          /\ UNCHANGED pageVars
    /\ UNCHANGED << config, loopVars, sessVars >>

\* Lines 23-31: page.fill / page.selectOption, one field per await, in the
\* order of FormSteps. Each throws when its selector does not show up.
FillField ==
    /\ pc = "fill"
    /\ \/ /\ filled' = filled \cup {FormSteps[step]}
          /\ step' = step + 1
          /\ pc' = IF step = Len(FormSteps) THEN "click" ELSE "fill"
          /\ UNCHANGED error
       \/ /\ Throw("FieldTimeout")
          /\ UNCHANGED << filled, step >>
    /\ UNCHANGED << config, loopVars, sessVars,
                    url, respOf, centerEl, storage, inFlight >>

\* Line 34: page.click('button[type="submit"]'), which sends the form.
Click ==
    /\ pc = "click"
    /\ \/ /\ pc' = "waitNav"
          /\ inFlight' = inFlight + 1
          /\ UNCHANGED << error, url, respOf, centerEl, filled, step, storage >>
       \/ /\ Throw("FieldTimeout")
          /\ UNCHANGED pageVars
    /\ UNCHANGED << config, loopVars, sessVars >>

\* Line 35 without its await: the loop goes on while the submission is still
\* unanswered.
ResponseNotAwaited == inFlight

\* Line 35: the awaited navigation is the answer to the submission.
AfterResponse == inFlight - 1

\* Line 35: page.waitForNavigation({ timeout: 15000 }). Either the server's
\* response page arrives, with or without an assigned-center element, or the
\* 15 s elapse and the call throws.
WaitForNavigation ==
    /\ pc = "waitNav"
    /\ \/ /\ pc' = "extract"
          /\ url' \in ResponseUrls
          /\ respOf' = attempt
          /\ centerEl' \in {{}} \cup {{t} : t \in Str(MaxNameLen)}
          /\ filled' = {}
          /\ inFlight' = AfterResponse
          /\ UNCHANGED << error, step, storage >>
       \/ /\ Throw("ResponseTimeout")
          /\ UNCHANGED pageVars
    /\ UNCHANGED << config, loopVars, sessVars >>

\* Line 47 with the variable declared outside the loop, so that it keeps the
\* previous iteration's value.
CarriedAssigned == assignedCenter

\* Line 47: let assignedCenter = ''
DeclaredAssigned == EmptyStr

\* Lines 47-52: page.textContent of the element the page shows now; when the
\* element is missing the call throws, the catch logs, and the declared value
\* stays.
Extract ==
    /\ pc = "extract"
    /\ assignedCenter' =
          IF centerEl = {} THEN DeclaredAssigned
          ELSE CHOOSE t \in centerEl : TRUE
    /\ pc' = "compare"
    /\ UNCHANGED << error, config, sessVars, pageVars,
                    matched, attempt, paymentUrl, started, results, delays >>

\* Lines 59-62 with the wait left out: the loop test comes next.
AfterMismatchNoWait == "head"

\* Line 61: the mismatch branch ends in page.waitForTimeout.
AfterMismatch == "delay"

\* Lines 54-62: the comparison and its two branches.
Compare ==
    /\ pc = "compare"
    /\ \/ /\ matches(assignedCenter, target)
          /\ paymentUrl' = url
          /\ matched' = TRUE
          /\ results' = Append(results,
                [attemptNumber |-> attempt, matched |-> TRUE, paymentUrl |-> url])
          /\ pc' = "head"
       \/ /\ ~matches(assignedCenter, target)
          /\ results' = Append(results,
                [attemptNumber |-> attempt, matched |-> FALSE, paymentUrl |-> ""])
          /\ pc' = AfterMismatch
          /\ UNCHANGED << paymentUrl, matched >>
    /\ UNCHANGED << error, config, sessVars, pageVars,
                    attempt, assignedCenter, started, delays >>

\* Line 61: page.waitForTimeout(5000 + Math.random() * 5000) elapses.
Delay ==
    /\ pc = "delay"
    /\ delays' = delays + 1
    /\ pc' = "head"
    /\ UNCHANGED << error, config, sessVars, pageVars, matched, attempt,
                    assignedCenter, paymentUrl, started, results >>

\* Line 41, the loop test fails: control leaves the loop for line 65.
ExitLoop ==
    /\ pc = "head"
    /\ ~LoopCond
    /\ pc' = "close"
    /\ UNCHANGED << error, config, sessVars, pageVars, loopVars >>

\* Line 65: browser.close(), after which the main function returns.
Close ==
    /\ pc = "close"
    /\ browser' = "closed"
    /\ pc' = "done"
    /\ UNCHANGED << error, config, launched, sessionOf, pageVars, loopVars >>

\* The operator asks the running tool to stop while an iteration is under
\* way. The script has no handler for it and reads no stop flag.
RequestStop ==
    /\ pc \in {"goto", "fill", "click", "waitNav", "extract", "compare", "delay"}
    /\ stopAt = 0
    /\ stopAt' = attempt
    /\ UNCHANGED << pc, error, target, maxRetries, sessVars, pageVars, loopVars >>

Next ==
    \/ Launch
    \/ NewPage
    \/ StartAttempt
    \/ Goto
    \/ FillField
    \/ Click
    \/ WaitForNavigation
    \/ Extract
    \/ Compare
    \/ Delay
    \/ ExitLoop
    \/ Close
    \/ RequestStop

Spec == Init /\ [][Next]_vars

\* Line 16: chromium.launch({ headless: false }) names no proxy, so every
\* browser it launches connects directly.
ProxyOf(b) == "direct"

\* The network egress of attempt k: that of the browser its page belongs to.
Egress(k) == ProxyOf(sessionOf[k])

\* ------------------------------------------------- the loop without end
\* Lines 41-44 past the iterations that are followed exactly: the loop test
\* still holds, so the script starts one more attempt. The iterations beyond
\* MaxAttempt are folded onto iteration MaxAttempt (its number is kept and its
\* outcome record is written and its wait is taken again), which makes the
\* endless loop a cycle.
FoldedAttempt ==
    /\ pc = "head"
    /\ LoopCond
    /\ attempt = MaxAttempt
    /\ results' = SubSeq(results, 1, Len(results) - 1)
    /\ delays' = delays - 1
    /\ pc' = "goto"
    /\ UNCHANGED << error, config, sessVars, pageVars,
                    matched, attempt, assignedCenter, paymentUrl, started >>

NextLive ==
    \/ Next
    \/ FoldedAttempt

\* Every await of the script settles (each Playwright call resolves or
\* rejects within its timeout) and the event loop then runs the continuation:
\* the script never stops between two steps. What the server answers is not
\* constrained.
LiveSpec == Init /\ [][NextLive]_vars /\ WF_vars(NextLive)

\* ------------------------------------------------- the comparison alone
\* The state in which line 54 is evaluated in the first attempt, for every
\* pair of an extracted text and a configured target up to MaxLen characters.
MatchInit ==
    /\ pc = "compare"
    /\ error = "none"
    /\ target \in Str(MaxLen)
    /\ maxRetries = 1
    /\ browser = "open"
    /\ launched = 1
    /\ url = "https://wafid.com/confirm/"
    /\ respOf = 1
    /\ assignedCenter \in Str(MaxLen)
    /\ centerEl = {assignedCenter}
    /\ filled = {}
    /\ step = Len(FormSteps) + 1
    /\ storage = {1}
    /\ matched = FALSE
    /\ attempt = 1
    /\ paymentUrl = ""
    /\ started = << 1 >>
    /\ results = << >>
    /\ sessionOf = << 1 >>
    /\ inFlight = 0
    /\ delays = 0
    /\ stopAt = 0

MatchNext == Compare

MatchSpec == MatchInit /\ [][MatchNext]_vars

\* ------------------------------------------------- names with a typo
\* Length of the configured names in the specification of near-miss names.
FuzzyLen == 7

\* The texts that are t with one character left out.
Deletions(t) ==
    {[i \in 1..(Len(t) - 1) |-> IF i < k THEN t[i] ELSE t[i + 1]] :
        k \in 1..Len(t)}

\* The state in which line 54 is evaluated in the first attempt, for every
\* target of FuzzyLen letters and an extracted text that is the target
\* itself, the target with one character left out, or a fixed other name.
FuzzyInit ==
    /\ pc = "compare"
    /\ error = "none"
    /\ target \in [1..FuzzyLen -> Alphabet \ {" "}]
    /\ maxRetries = 1
    /\ browser = "open"
    /\ launched = 1
    /\ url = "https://wafid.com/confirm/"
    /\ respOf = 1
    /\ assignedCenter \in
          Deletions(target) \cup
          {target, [i \in 1..FuzzyLen |-> "a"], [i \in 1..FuzzyLen |-> "b"]}
    /\ centerEl = {assignedCenter}
    /\ filled = {}
    /\ step = Len(FormSteps) + 1
    /\ storage = {1}
    /\ matched = FALSE
    /\ attempt = 1
    /\ paymentUrl = ""
    /\ started = << 1 >>
    /\ results = << >>
    /\ sessionOf = << 1 >>
    /\ inFlight = 0
    /\ delays = 0
    /\ stopAt = 0

FuzzySpec == FuzzyInit /\ [][MatchNext]_vars

\* ---------------------------------------------------------------- claims
\* The terminal states the claims name.
Terminal == {"Completed", "Failed", "Stopped"}

LastResult == results[Len(results)]

\* C1: the number of attempts started never exceeds the retry cap maxRetries
\* (after maxRetries mismatching attempts the run ends, RetriesExhausted).
C1_AttemptsWithinCap == Len(started) <= maxRetries

\* C2: the run is Completed only when its final attempt matched and captured
\* a non-empty payment URL; once an attempt has matched the run goes on to
\* Completed and nowhere else; no attempt before the last one matched and no
\* attempt is started after a matching one.
C2_CompletedIffMatched ==
    /\ status = "Completed" =>
          /\ results # << >>
          /\ LastResult.matched
          /\ LastResult.paymentUrl # ""
          /\ LastResult.paymentUrl = paymentUrl
    /\ (results # << >> /\ LastResult.matched) =>
          /\ pc \in {"head", "close", "done"}
          /\ LastResult.attemptNumber = attempt
          /\ Len(started) = attempt
    /\ status \in Terminal /\ results # << >> /\ LastResult.matched
          => status = "Completed"
    /\ \A i \in 1..(Len(results) - 1) : ~results[i].matched

\* A run that completed in its second or a later attempt.
C2_Witness == status = "Completed" /\ attempt >= 2

\* C3: no two attempts of a run use the same browser session, and an attempt
\* starts its page load with nothing stored by an earlier attempt.
C3_FreshSessionPerAttempt ==
    /\ \A i, j \in DOMAIN sessionOf : i # j => sessionOf[i] # sessionOf[j]
    /\ pc = "goto" => storage = {}

\* C4: when the run has ended, whether it returned or an error was thrown,
\* the browser it opened has been closed.
C4_SessionReleased == status \in Terminal => browser # "open"

\* C5: a timeout of the wait for the server's response leaves the run Running.
C5_TimeoutRecoverable == error = "ResponseTimeout" => status = "Running"

\* C6: the value the comparison of attempt k reads is the text of the
\* assigned-center element of attempt k's response page, or the empty value
\* when that page has no such element.
C6_LiveValueCompared ==
    pc = "compare" =>
        /\ respOf = attempt
        /\ assignedCenter = IF centerEl = {} THEN EmptyStr
                            ELSE CHOOSE t \in centerEl : TRUE

\* A later attempt whose response page has no assigned-center element.
C6_Witness ==
    /\ pc = "compare"
    /\ attempt >= 2
    /\ centerEl = {}
    /\ target = << "a" >>

\* C7: the candidate's personal fields are in the form only once the
\* attempt's assigned center has matched the target.
C7_PersonalAfterMatch == (filled \cap PersonalFields # {}) => matched

C9_EventuallyTerminal == <>(status \in Terminal)

\* Two letters that differ at most in case.
SameLetter(c, d) == c = d \/ {c, d} \in {{"a", "A"}, {"b", "B"}}

\* s[i..j] is s without its leading and trailing whitespace.
IsCore(s, i, j) ==
    /\ i <= j + 1
    /\ \A k \in 1..Len(s) : (k < i \/ k > j) => s[k] = " "
    /\ i <= j => (s[i] # " " /\ s[j] # " ")

EqualTrimmedIgnoringCase(s, t) ==
    \E i1 \in 1..(Len(s) + 1), j1 \in 0..Len(s),
       i2 \in 1..(Len(t) + 1), j2 \in 0..Len(t) :
        /\ IsCore(s, i1, j1)
        /\ IsCore(t, i2, j2)
        /\ j1 - i1 = j2 - i2
        /\ \A k \in 0..(j1 - i1) : SameLetter(s[i1 + k], t[i2 + k])

\* C10: once the comparison has been made, the attempt is a match whenever
\* the assigned text and the target are equal after dropping leading and
\* trailing whitespace and ignoring letter case.
C10_MatchesTrimmedIgnoringCase ==
    (pc # "compare" /\ EqualTrimmedIgnoringCase(assignedCenter, target))
        => matched

\* matches("Ab", "ab ") has been evaluated and was true.
C10_Witness ==
    /\ pc # "compare"
    /\ assignedCenter = << "A", "b" >>
    /\ target = << "a", "b", " " >>
    /\ matched

\* The letters of s, case ignored.
Letters(s) == {LowerChar(s[i]) : i \in 1..Len(s)}

\* C11: once the comparison has been made, the attempt is a match when the
\* assigned text is the target with a single character left out and the
\* edit-distance similarity 1 - 1/Len(target) reaches the threshold 0.85, and
\* it is no match when the two names have no letter in common.
C11_FuzzyMatch ==
    pc # "compare" =>
        /\ (/\ assignedCenter \in Deletions(target)
            /\ 100 * (Len(target) - 1) >= 85 * Len(target)) => matched
        /\ Letters(assignedCenter) \cap Letters(target) = {} => ~matched

\* C12: once the operator has asked to stop during iteration k, iteration
\* k+1 is never started: exactly k attempts have been started.
C12_StopHonored == stopAt > 0 => Len(started) = stopAt

\* C13: the network egress of attempt k+1 differs from that of attempt k.
C13_NewProxyPerAttempt ==
    \A k \in 1..(Len(sessionOf) - 1) : Egress(k + 1) # Egress(k)

\* Browsers launched and not closed.
OpenSessions == launched - (IF browser = "closed" THEN 1 ELSE 0)

\* C14: at most one browser session exists and at most one form submission
\* is unanswered, and one is unanswered only while the script waits for it
\* or after that wait has ended the run.
C14_Sequential ==
    /\ OpenSessions <= 1
    /\ inFlight \in {0, 1}
    /\ inFlight = 1 => pc \in {"waitNav", "rejected"}

\* The second or a later submission is waiting for its answer.
C14_Witness ==
    /\ pc = "waitNav"
    /\ inFlight = 1
    /\ attempt >= 2
    /\ browser = "open"

\* C15: an attempt whose response page has no assigned-center element is
\* recorded as no match and captures no payment URL.
C15_ExtractionFailureNeverMatches ==
    (attempt > 0 /\ respOf = attempt /\ centerEl = {} /\ Len(results) = attempt)
        => /\ ~LastResult.matched
           /\ LastResult.paymentUrl = ""
           /\ paymentUrl = ""

\* The attempts recorded as no match.
NonMatching == {i \in DOMAIN results : ~results[i].matched}

\* C16: every non-matching attempt is followed by one wait, which has elapsed
\* before the next page load starts, and a matching attempt by none.
C16_DelayBetweenAttempts ==
    /\ pc = "delay" => delays = Cardinality(NonMatching) - 1
    /\ pc # "delay" => delays = Cardinality(NonMatching)
    /\ pc = "goto" => delays = attempt - 1

\* Two mismatches, each followed by its wait, then a match and the end.
C16_Witness == pc = "done" /\ attempt = 3 /\ delays = 2

====
